---- MODULE Spec2Model ----
(***************************************************************************)
(* Model of the assets gallery (nextjs-assets-gallery/src/app).            *)
(*                                                                         *)
(*   page.tsx          collectAssets (recursive directory walk),           *)
(*                     mergeAssets (grouping of same-stem files), Home     *)
(*   AssetGallery.tsx  sections (grouping by folder), toSlug, scroll-spy,  *)
(*                     sidebar state                                       *)
(*                                                                         *)
(* A JavaScript string is modelled as a sequence of one-character strings, *)
(* so that extname, the regular expressions, toLowerCase, encodeURI-       *)
(* Component and localeCompare are computed character by character.        *)
(* Paths are POSIX paths (path.sep = "/").                                 *)
(***************************************************************************)
EXTENDS Integers, Sequences, FiniteSets, TLC

(***************************************************************************)
(* Characters                                                              *)
(***************************************************************************)
Uppers == << "A", "B", "C", "D", "E", "F", "G", "H", "I", "J", "K", "L", "M",
             "N", "O", "P", "Q", "R", "S", "T", "U", "V", "W", "X", "Y", "Z" >>

Lowers == << "a", "b", "c", "d", "e", "f", "g", "h", "i", "j", "k", "l", "m",
             "n", "o", "p", "q", "r", "s", "t", "u", "v", "w", "x", "y", "z" >>

Digits == << "0", "1", "2", "3", "4", "5", "6", "7", "8", "9" >>

\* Position of character c in a sequence of distinct characters, 0 if absent.
IndexOf(c, seq) ==
  IF \E i \in 1..Len(seq) : seq[i] = c
    THEN CHOOSE i \in 1..Len(seq) : seq[i] = c
    ELSE 0

\* Last position of character c in string s, 0 if absent.
LastIndexOf(c, s) ==
  IF \E i \in 1..Len(s) : s[i] = c
    THEN CHOOSE i \in 1..Len(s) : s[i] = c /\ \A j \in (i+1)..Len(s) : s[j] # c
    ELSE 0

\* Concatenation of a sequence of strings.
RECURSIVE Flatten(_)
Flatten(ss) == IF ss = << >> THEN << >> ELSE Head(ss) \o Flatten(Tail(ss))

\* The elements of a set of indices, in ascending order.
Ascending(S) ==
  [k \in 1..Cardinality(S) |->
     CHOOSE i \in S : Cardinality({j \in S : j < i}) = k - 1]

\* String.prototype.toLowerCase on the modelled alphabet.
toLowerCaseChar(c) ==
  IF IndexOf(c, Uppers) > 0 THEN Lowers[IndexOf(c, Uppers)] ELSE c

toLowerCase(s) == [i \in 1..Len(s) |-> toLowerCaseChar(s[i])]

(***************************************************************************)
(* String.prototype.localeCompare (ICU root collation) on the modelled     *)
(* alphabet: white space < "-" < "." < "/" < digits < letters at the       *)
(* primary level, letters compared without case; strings that are equal    *)
(* at the primary level are ordered by case, lower case first, at the      *)
(* first position where they differ.                                       *)
(***************************************************************************)
CollationOrder == << " ", "-", ".", "/" >> \o Digits \o Lowers

PrimaryWeight(c) == IndexOf(toLowerCaseChar(c), CollationOrder)

\* Primary-level comparison: -1, 0 or 1.
ComparePrimary(a, b) ==
  LET n == IF Len(a) < Len(b) THEN Len(a) ELSE Len(b)
      diff == {i \in 1..n : PrimaryWeight(a[i]) # PrimaryWeight(b[i])}
  IN  IF diff # {}
        THEN LET i == CHOOSE k \in diff : \A m \in diff : k <= m
             IN  IF PrimaryWeight(a[i]) < PrimaryWeight(b[i]) THEN -1 ELSE 1
        ELSE IF Len(a) < Len(b) THEN -1
        ELSE IF Len(a) > Len(b) THEN 1
        ELSE 0

\* a.localeCompare(b)
localeCompare(a, b) ==
  LET p == ComparePrimary(a, b)
      diff == {i \in 1..Len(a) : a[i] # b[i]}
  IN  IF p # 0 THEN p
      ELSE IF diff = {} THEN 0
      ELSE LET i == CHOOSE k \in diff : \A m \in diff : k <= m
           IN  IF IndexOf(a[i], Lowers) > 0 THEN -1 ELSE 1

\* a.localeCompare(b, undefined, { sensitivity: "base" })
localeCompareBase(a, b) == ComparePrimary(a, b)

(***************************************************************************)
(* Array.prototype.sort is stable: element i goes after every element      *)
(* that compares smaller and after every earlier element that compares     *)
(* equal.                                                                  *)
(***************************************************************************)
\* cmp[j][i] is the comparator's result for (seq[j], seq[i]).
StableSort(seq, cmp) ==
  LET rank(i) == 1 + Cardinality({j \in 1..Len(seq) :
                        \/ cmp[j][i] < 0
                        \/ cmp[j][i] = 0 /\ j < i})
  IN  [k \in 1..Len(seq) |-> seq[CHOOSE i \in 1..Len(seq) : rank(i) = k]]

(***************************************************************************)
(* Node's path module (POSIX)                                              *)
(***************************************************************************)
\* The last component of a path.
LastSegment(p) == SubSeq(p, LastIndexOf("/", p) + 1, Len(p))

\* path.extname: from the last "." of the last component, "" when there is
\* no dot, when the only dot is the first character, or for "..".
extname(p) ==
  LET b == LastSegment(p)
      d == LastIndexOf(".", b)
  IN  IF d = 0 \/ d = 1 \/ b = << ".", "." >> THEN << >> ELSE SubSeq(b, d, Len(b))

\* path.basename(p, ext): the last component, without ext when it ends with
\* ext and is longer than ext.
basename(p, ext) ==
  LET b == LastSegment(p)
  IN  IF /\ ext # << >>
         /\ Len(b) > Len(ext)
         /\ SubSeq(b, Len(b) - Len(ext) + 1, Len(b)) = ext
        THEN SubSeq(b, 1, Len(b) - Len(ext))
        ELSE b

\* path.join(relativeDir, name), the names holding no "." or ".." component.
pathJoin(dir, name) == dir \o << "/" >> \o name

(***************************************************************************)
(* page.tsx: constants                                                     *)
(***************************************************************************)
SeparateAtoms == << "S", "e", "p", "a", "r", "a", "t", "e", " ",
                    "A", "t", "o", "m", "s" >>

Templates == << "T", "e", "m", "p", "l", "a", "t", "e", "s" >>

ROOT_FOLDERS == << SeparateAtoms, Templates >>

IMAGE_EXTENSIONS ==
  { << "p", "n", "g" >>, << "s", "v", "g" >>, << "j", "p", "g" >>,
    << "j", "p", "e", "g" >>, << "w", "e", "b", "p" >>, << "g", "i", "f" >>,
    << "a", "v", "i", "f" >>, << "b", "m", "p" >> }

preferOrder ==
  << << "s", "v", "g" >>, << "p", "n", "g" >>, << "j", "p", "g" >>,
     << "j", "p", "e", "g" >>, << "w", "e", "b", "p" >>, << "g", "i", "f" >>,
     << "a", "v", "i", "f" >>, << "b", "m", "p" >> >>

(***************************************************************************)
(* page.tsx: toPublicUrl                                                   *)
(***************************************************************************)
\* encodeURIComponent of one character: letters, digits, "-" and "." are
\* kept, a space becomes %20.
encodeURIComponentChar(c) == IF c = " " THEN << "%", "2", "0" >> ELSE << c >>

\* "/" + the segments of rootFolder/relativePath, each percent-encoded,
\* joined by "/".
toPublicUrl(rootFolder, relativePath) ==
  LET full == rootFolder \o << "/" >> \o relativePath
  IN  << "/" >> \o Flatten([i \in 1..Len(full) |->
                    IF full[i] = "/" THEN << "/" >>
                                     ELSE encodeURIComponentChar(full[i])])

(***************************************************************************)
(* page.tsx: the item collectAssets builds for a non-directory entry       *)
(***************************************************************************)
\* The extension as written, not lower-cased.
extensionOfCaseSensitive(name) ==
  LET e == extname(name)
  IN  IF e = << >> THEN << >> ELSE Tail(e)

\* path.extname(entry.name).slice(1).toLowerCase()
extensionOf(name) ==
  LET e == extname(name)
  IN  IF e = << >> THEN << >> ELSE toLowerCase(Tail(e))

\* relativeDir ? path.join(relativeDir, entry.name) : entry.name
nextRelativeOf(relativeDir, name) ==
  IF relativeDir # << >> THEN pathJoin(relativeDir, name) ELSE name

AssetItem(rootFolder, relativeDir, name) ==
  [ name         |-> name,
    extension    |-> extensionOf(name),
    relativePath |-> nextRelativeOf(relativeDir, name),
    publicUrl    |-> toPublicUrl(rootFolder, nextRelativeOf(relativeDir, name)),
    rootFolder   |-> rootFolder ]

(***************************************************************************)
(* page.tsx: mergeAssets                                                   *)
(***************************************************************************)
\* relativePath.replace(/\.[^.]+$/, ""): the last "." and what follows it
\* are removed when at least one character follows it.
stripExtension(relativePath) ==
  LET d == LastIndexOf(".", relativePath)
  IN  IF d = 0 \/ d = Len(relativePath)
        THEN relativePath
        ELSE SubSeq(relativePath, 1, d - 1)

\* A key that leaves the root folder out.
groupKeyNoRoot(item) == stripExtension(item.relativePath)

\* `${item.rootFolder}\n${pathNoExt}`
groupKey(item) ==
  item.rootFolder \o << "\n" >> \o stripExtension(item.relativePath)

\* The members of the group of key k, in input order.
groupOf(items, k) ==
  LET inGroup(it) == groupKey(it) = k
  IN  SelectSeq(items, inGroup)

\* A preview that ignores preferOrder.
previewOfFirst(group) == group[1]

\* The preview: the first member with the first extension of preferOrder
\* that some member has, else the first member.
previewOf(group) ==
  LET hits == {e \in 1..Len(preferOrder) :
                 \E i \in 1..Len(group) : group[i].extension = preferOrder[e]}
  IN  IF hits = {}
        THEN group[1]
        ELSE LET e == CHOOSE x \in hits : \A y \in hits : x <= y
                 i == CHOOSE x \in 1..Len(group) :
                        /\ group[x].extension = preferOrder[e]
                        /\ \A y \in 1..(x-1) : group[y].extension # preferOrder[e]
             IN  group[i]

mergedOf(group) ==
  LET first == group[1]
      bn    == basename(first.relativePath, extname(first.relativePath))
  IN  [ rootFolder       |-> first.rootFolder,
        baseName         |-> IF bn # << >> THEN bn ELSE first.name,
        relativePath     |-> stripExtension(first.relativePath),
        variants         |-> [i \in 1..Len(group) |->
                               [ extension |-> group[i].extension,
                                 publicUrl |-> group[i].publicUrl ]],
        previewUrl       |-> previewOf(group).publicUrl,
        previewExtension |-> previewOf(group).extension ]

\* The comparator of merged.sort.
compareMerged(a, b) ==
  IF localeCompare(a.rootFolder, b.rootFolder) # 0
    THEN localeCompare(a.rootFolder, b.rootFolder)
    ELSE localeCompare(a.relativePath, b.relativePath)

\* Unsorted result: one merged asset per key, in the order the keys were
\* first inserted in the Map.
mergeGroups(items) ==
  LET firsts == Ascending({i \in 1..Len(items) :
                   \A j \in 1..(i-1) : groupKey(items[j]) # groupKey(items[i])})
  IN  [g \in 1..Len(firsts) |-> mergedOf(groupOf(items, groupKey(items[firsts[g]])))]

\* mergeAssets without its final sort.
mergeAssetsUnsorted(items) == mergeGroups(items)

mergeAssets(items) ==
  LET merged == mergeGroups(items)
  IN  StableSort(merged,
        [j \in 1..Len(merged) |->
           [i \in 1..Len(merged) |-> compareMerged(merged[j], merged[i])]])

(***************************************************************************)
(* page.tsx: collectAssets, as a function of the file system.              *)
(*                                                                         *)
(* A file system f maps the path of every directory that readdir can read  *)
(* (a sequence of names below public/) to its listing, a sequence of       *)
(* entries [name, kind], kind being "dir" (Dirent.isDirectory() is true),  *)
(* "file" (a regular file) or "other" (a symbolic link, a socket, ...).    *)
(* readdir throws for a path that is not in DOMAIN f.                      *)
(***************************************************************************)
\* The test of line 61 on the extension of line 60.
isImage(name) == extensionOf(name) \in IMAGE_EXTENSIONS

RECURSIVE collectAssets(_, _, _, _)
RECURSIVE collectEntries(_, _, _, _, _)
\* The loop of lines 47-72 from entry i on.
collectEntries(f, absoluteDir, rootFolder, relativeDir, i) ==
  IF i > Len(f[absoluteDir]) THEN << >>
  ELSE LET entry == f[absoluteDir][i]
           nextRelative == nextRelativeOf(relativeDir, entry.name)
           nextAbsolute == Append(absoluteDir, entry.name)
       IN  (IF entry.kind = "dir"
              THEN collectAssets(f, nextAbsolute, rootFolder, nextRelative)
            ELSE IF isImage(entry.name)
              THEN << AssetItem(rootFolder, relativeDir, entry.name) >>
            ELSE << >>)
           \o collectEntries(f, absoluteDir, rootFolder, relativeDir, i + 1)

collectAssets(f, absoluteDir, rootFolder, relativeDir) ==
  IF absoluteDir \notin DOMAIN f
    THEN << >>
    ELSE collectEntries(f, absoluteDir, rootFolder, relativeDir, 1)

(***************************************************************************)
(* page.tsx: Home                                                          *)
(***************************************************************************)
\* .sort((a, b) => a.relativePath.localeCompare(b.relativePath))
sortByRelativePath(seq) ==
  StableSort(seq,
    [j \in 1..Len(seq) |->
       [i \in 1..Len(seq) |-> localeCompare(seq[j].relativePath, seq[i].relativePath)]])

\* Promise.all(...).flat().sort(...) then mergeAssets: results holds the
\* list of each root folder, in the order of ROOT_FOLDERS.
homeMerge(results) == mergeAssets(sortByRelativePath(Flatten(results)))

\* The merged assets Home passes to the gallery for file system f.
HomeAssets(f) ==
  homeMerge([w \in 1..Len(ROOT_FOLDERS) |->
               collectAssets(f, << ROOT_FOLDERS[w] >>, ROOT_FOLDERS[w], << >>)])

(***************************************************************************)
(* AssetGallery.tsx: getFolderPath, toSlug, sections                       *)
(***************************************************************************)
\* A folder path cut at the first slash instead of the last.
getFolderPathFirstSlash(relativePath) ==
  IF IndexOf("/", relativePath) = 0 THEN << >>
  ELSE SubSeq(relativePath, 1,
         (CHOOSE i \in 1..Len(relativePath) :
            relativePath[i] = "/" /\ \A j \in 1..(i-1) : relativePath[j] # "/") - 1)

\* relativePath.includes("/") ? relativePath.replace(/\/[^/]+$/, "") : ""
getFolderPath(relativePath) ==
  LET d == LastIndexOf("/", relativePath)
  IN  IF d = 0 THEN << >>
      ELSE IF d = Len(relativePath) THEN relativePath
      ELSE SubSeq(relativePath, 1, d - 1)

\* A character kept by .replace(/[^a-z0-9-]/g, "").
SlugChar(c) == c = "-" \/ IndexOf(c, Lowers) > 0 \/ IndexOf(c, Digits) > 0

\* toLowerCase, every run of white space to one "-", every "/" to "-",
\* every other character outside [a-z0-9-] removed.
toSlug(heading) ==
  LET h == toLowerCase(heading)
  IN  Flatten([i \in 1..Len(h) |->
        IF h[i] = " " THEN (IF i > 1 /\ h[i-1] = " " THEN << >> ELSE << "-" >>)
        ELSE IF h[i] = "/" THEN << "-" >>
        ELSE IF SlugChar(h[i]) THEN << h[i] >>
        ELSE << >>])

\* folderPath ? `${root} / ${folderPath}` : root
headingOf(root, folderPath) ==
  IF folderPath # << >> THEN root \o << " ", "/", " " >> \o folderPath ELSE root

\* Array.from(byFolder.keys()).sort(localeCompare, sensitivity "base"): the
\* folder paths of a root's assets, in order of first appearance, sorted.
folderPathsOf(rootAssets) ==
  LET firsts == Ascending({i \in 1..Len(rootAssets) :
                   \A j \in 1..(i-1) : getFolderPath(rootAssets[j].relativePath)
                                         # getFolderPath(rootAssets[i].relativePath)})
      keys == [k \in 1..Len(firsts) |-> getFolderPath(rootAssets[firsts[k]].relativePath)]
  IN  StableSort(keys,
        [j \in 1..Len(keys) |-> [i \in 1..Len(keys) |-> localeCompareBase(keys[j], keys[i])]])

\* The sections of one root folder (lines 46-66).
sectionsOfRoot(assets, root) ==
  LET ofRoot(a) == a.rootFolder = root
      rootAssets == SelectSeq(assets, ofRoot)
      folderPaths == folderPathsOf(rootAssets)
  IN  [k \in 1..Len(folderPaths) |->
         LET inFolder(a) == getFolderPath(a.relativePath) = folderPaths[k]
         IN  [ root       |-> root,
               folderPath |-> folderPaths[k],
               heading    |-> headingOf(root, folderPaths[k]),
               id         |-> toSlug(headingOf(root, folderPaths[k])),
               items      |-> SelectSeq(rootAssets, inFolder) ]]

\* The sections memo (lines 37-69).
sectionsOf(assets, rootOrder) ==
  Flatten([r \in 1..Len(rootOrder) |-> sectionsOfRoot(assets, rootOrder[r])])

(***************************************************************************)
(* AssetGallery.tsx: scroll-spy                                            *)
(***************************************************************************)
\* The value of a state variable that is null.
Null == << "null" >>

\* The lookahead of line 85.
Lookahead == 120

\* el.offsetTop for document.getElementById(id): the first section, in
\* document order, that has the id.
ElementTop(secs, tops, id) ==
  tops[CHOOSE i \in 1..Len(secs) :
         secs[i].id = id /\ \A j \in 1..(i-1) : secs[j].id # id]

\* The value of current after the loop of lines 87-90.
currentSection(secs, tops, y) ==
  LET hits == {i \in 1..Len(secs) : ElementTop(secs, tops, secs[i].id) <= y + Lookahead}
  IN  IF hits = {} THEN Null
      ELSE secs[CHOOSE i \in hits : \A j \in hits : j <= i].id

\* onScroll, lines 84-92: activeId after the handler.
onScroll(secs, tops, y, active) ==
  LET current == currentSection(secs, tops, y)
  IN  IF current # Null /\ current # << >> THEN current ELSE active

(***************************************************************************)
(* Bounds                                                                  *)
(***************************************************************************)
\* Longest list of raw assets handed to mergeAssets.
MaxItems == 3

\* Directories nested below a root folder in the walked trees.
MaxDepth == 2

\* Folders with assets below "Separate Atoms" in the trees of the gallery.
MaxFolders == 3

(***************************************************************************)
(* State                                                                   *)
(***************************************************************************)
VARIABLES
  pc,            \* phase of the run
  items,         \* mergeAssets: a list of raw assets
  perm,          \* mergeAssets: a permutation of items
  mergedA,       \* mergeAssets(items)
  mergedB,       \* mergeAssets(perm)
  fs,            \* Home: the file system below public/
  stack,         \* Home: per root folder, the collectAssets calls in progress
  walkResult,    \* Home: per root folder, what its collectAssets call returned
  walkStatus,    \* Home: per root folder, "pending", "fulfilled" or "rejected"
  finishOrder,   \* Home: the root folders in the order their walks settled
  mergedAssets,  \* Home: the list passed to AssetGallery
  assets,        \* AssetGallery: the assets prop
  sections,      \* AssetGallery: the sections memo
  offsetTop,     \* the offsetTop of each section element, in document order
  scrollY,       \* window.scrollY
  sidebarOpen,   \* AssetGallery: state
  activeId,      \* AssetGallery: state
  hoveredId,     \* AssetGallery: state
  pointerOver,   \* the sidebar entry the pointer is over, Null if none
  lastEvent,     \* the last event handled
  prevSidebarOpen, \* sidebarOpen before the last event
  prevActiveId   \* activeId before the last event

mergeVars == << items, perm, mergedA, mergedB >>

walkVars == << fs, stack, walkResult, walkStatus, finishOrder, mergedAssets >>

uiVars == << assets, sections, offsetTop, scrollY, sidebarOpen, activeId, hoveredId,
            pointerOver, lastEvent, prevSidebarOpen, prevActiveId >>

vars == << pc, mergeVars, walkVars, uiVars >>

\* The variables of a part of the program that a specification leaves out.
MergeIdle == items = << >> /\ perm = << >> /\ mergedA = << >> /\ mergedB = << >>

UIIdle ==
  /\ assets = << >>
  /\ sections = << >>
  /\ offsetTop = << >>
  /\ scrollY = 0
  /\ sidebarOpen = FALSE
  /\ activeId = Null
  /\ hoveredId = Null
  /\ pointerOver = Null
  /\ lastEvent = "none"
  /\ prevSidebarOpen = FALSE
  /\ prevActiveId = Null

WalkIdle ==
  /\ fs = << >>
  /\ stack = << >>
  /\ walkResult = << >>
  /\ walkStatus = << >>
  /\ finishOrder = << >>
  /\ mergedAssets = << >>

(***************************************************************************)
(* mergeAssets as a function of its input list.  The raw assets are items  *)
(* as collectAssets builds them (lines 60-71), for image files and for     *)
(* files of other formats, which collectAssets filters out but mergeAssets *)
(* accepts.                                                                *)
(***************************************************************************)
MergePool ==
  << AssetItem(SeparateAtoms, << >>, << "a", "r", "m", ".", "s", "v", "g" >>),
     AssetItem(SeparateAtoms, << >>, << "a", "r", "m", ".", "p", "n", "g" >>),
     AssetItem(SeparateAtoms, << >>, << "a", "r", "m", ".", "P", "N", "G" >>),
     AssetItem(SeparateAtoms, << >>, << "l", "e", "g", ".", "t", "i", "f" >>),
     AssetItem(SeparateAtoms, << >>, << "l", "e", "g", ".", "r", "a", "w" >>),
     AssetItem(SeparateAtoms, << >>, << "L", "e", "g", ".", "g", "i", "f" >>),
     AssetItem(Templates, << >>, << "a", "r", "m", ".", "s", "v", "g" >>),
     AssetItem(SeparateAtoms, << "b" >>, << "a", "r", "m", ".", "j", "p", "e", "g" >>) >>

\* The lists of at most MaxItems distinct raw assets of the pool, in the
\* order of the pool; Reorder reaches every other order of each.
MergeInputs ==
  { [i \in 1..Cardinality(S) |-> MergePool[Ascending(S)[i]]] :
      S \in { T \in SUBSET (1..Len(MergePool)) : Cardinality(T) <= MaxItems } }

MergeInit ==
  /\ pc = "input"
  /\ items \in MergeInputs
  /\ perm = items
  /\ mergedA = << >>
  /\ mergedB = << >>
  /\ WalkIdle
  /\ UIIdle

\* Another order of the same raw assets: two neighbours exchanged.
Reorder ==
  /\ pc = "input"
  /\ \E i \in 1..(Len(perm) - 1) :
       perm' = [perm EXCEPT ![i] = perm[i+1], ![i+1] = perm[i]]
  /\ UNCHANGED << pc, items, mergedA, mergedB, walkVars, uiVars >>

\* mergeAssets applied to the list and to its permutation.
RunMerge ==
  /\ pc = "input"
  /\ mergedA' = mergeAssets(items)
  /\ mergedB' = mergeAssets(perm)
  /\ pc' = "merged"
  /\ UNCHANGED << items, perm, walkVars, uiVars >>

MergeNext == Reorder \/ RunMerge

SpecMerge == MergeInit /\ [][MergeNext]_vars

(***************************************************************************)
(* Home: the walks of the root folders, run concurrently.                  *)
(*                                                                         *)
(* The walked trees: below "Separate Atoms", image files in lower and      *)
(* upper case, files of other or no extension, a symbolic link, a chain of *)
(* MaxDepth nested directories (Body, Body/in, ...) and a directory named  *)
(* like an image (b.png); below "Templates", two images.  A tree is chosen *)
(* by which directories can be read and by the order of the listings.      *)
(***************************************************************************)
File(name) == [name |-> name, kind |-> "file"]

Dir(name) == [name |-> name, kind |-> "dir"]

Other(name) == [name |-> name, kind |-> "other"]

nBody == << "B", "o", "d", "y" >>

nIn == << "i", "n" >>

nSide == << "b", ".", "p", "n", "g" >>

ChainPath(k) == << SeparateAtoms, nBody >> \o [i \in 1..(k - 1) |-> nIn]

Reverse(seq) == [i \in 1..Len(seq) |-> seq[Len(seq) + 1 - i]]

TreeListing(d) ==
  IF d = << SeparateAtoms >> THEN
    << File(<< "a", "r", "m", ".", "P", "N", "G" >>),
       File(<< "n", "o", "t", "e", "s", ".", "t", "x", "t" >>),
       Dir(nBody),
       File(<< "a", "r", "m", ".", "s", "v", "g" >>),
       Other(<< "l", "i", "n", "k", ".", "g", "i", "f" >>),
       Dir(nSide),
       File(<< "R", "E", "A", "D", "M", "E" >>) >>
  ELSE IF d = << Templates >> THEN
    << File(<< "p", "o", "s", "t", "e", "r", ".", "s", "v", "g" >>),
       File(<< "a", "r", "m", ".", "s", "v", "g" >>) >>
  ELSE IF d = << SeparateAtoms, nSide >> THEN
    << File(<< "y", ".", "b", "m", "p" >>) >>
  ELSE
    << File(<< "l", "e", "g", ".", "j", "p", "e", "g" >>) >>
    \o (IF Len(d) - 1 < MaxDepth THEN << Dir(nIn) >> ELSE << >>)
    \o << File(<< "l", "e", "g", ".", "d", "o", "c" >>) >>

WalkTree(saRead, chainRead, sideRead, tRead, reversed) ==
  LET dirs == (IF saRead
                 THEN {<< SeparateAtoms >>}
                      \cup {ChainPath(k) : k \in 1..chainRead}
                      \cup (IF sideRead THEN {<< SeparateAtoms, nSide >>} ELSE {})
                 ELSE {})
              \cup (IF tRead THEN {<< Templates >>} ELSE {})
  IN  [d \in dirs |-> IF reversed THEN Reverse(TreeListing(d)) ELSE TreeListing(d)]

WalkTrees ==
  { WalkTree(saRead, chainRead, sideRead, tRead, reversed) :
      saRead \in BOOLEAN, chainRead \in 0..MaxDepth, sideRead \in BOOLEAN,
      tRead \in BOOLEAN, reversed \in BOOLEAN }

Walkers == 1..Len(ROOT_FOLDERS)

WalkInit ==
  /\ pc = "start"
  /\ fs \in WalkTrees
  /\ stack = [w \in Walkers |-> << >>]
  /\ walkResult = [w \in Walkers |-> << >>]
  /\ walkStatus = [w \in Walkers |-> "pending"]
  /\ finishOrder = << >>
  /\ mergedAssets = << >>
  /\ MergeIdle
  /\ UIIdle

\* A call of collectAssets that has just issued its readdir (line 40).
NewCall(absoluteDir, relativeDir) ==
  [ absoluteDir |-> absoluteDir, relativeDir |-> relativeDir,
    state |-> "readdir", entries |-> << >>, idx |-> 0, results |-> << >> ]

\* Home, lines 149-155: one collectAssets call per root folder, each running
\* up to its first await.
HomeStart ==
  /\ pc = "start"
  /\ pc' = "walking"
  /\ stack' = [w \in Walkers |-> << NewCall(<< ROOT_FOLDERS[w] >>, << >>) >>]
  /\ UNCHANGED << fs, walkResult, walkStatus, finishOrder, mergedAssets, mergeVars, uiVars >>

Top(w) == stack[w][Len(stack[w])]

SetTop(w, frame) == [stack EXCEPT ![w] = [@ EXCEPT ![Len(@)] = frame]]

\* The innermost call of walk w returns value: its caller pushes the value
\* on its results (lines 54-57) and goes on with the next entry; the
\* outermost call fulfils the walk.
Return(w, value) ==
  IF Len(stack[w]) = 1
    THEN /\ stack' = [stack EXCEPT ![w] = << >>]
         /\ walkResult' = [walkResult EXCEPT ![w] = value]
         /\ walkStatus' = [walkStatus EXCEPT ![w] = "fulfilled"]
         /\ finishOrder' = Append(finishOrder, w)
    ELSE /\ LET caller == stack[w][Len(stack[w]) - 1]
            IN  stack' = [stack EXCEPT ![w] =
                  Append(SubSeq(@, 1, Len(@) - 2),
                         [caller EXCEPT !.results = @ \o value,
                                        !.idx = @ + 1,
                                        !.state = "loop"])]
         /\ UNCHANGED << walkResult, walkStatus, finishOrder >>

\* readdir resolves with the listing (line 40).
ReaddirOk(w) ==
  /\ pc = "walking"
  /\ stack[w] # << >>
  /\ Top(w).state = "readdir"
  /\ Top(w).absoluteDir \in DOMAIN fs
  /\ stack' = SetTop(w, [Top(w) EXCEPT !.state = "loop",
                                       !.entries = fs[Top(w).absoluteDir],
                                       !.idx = 1])
  /\ UNCHANGED << pc, fs, walkResult, walkStatus, finishOrder, mergedAssets, mergeVars, uiVars >>

\* A readdir failure that is not caught: the rejection passes through every
\* awaiting caller and rejects the walk.
ReaddirFailThrows(w) ==
  /\ pc = "walking"
  /\ stack[w] # << >>
  /\ Top(w).state = "readdir"
  /\ Top(w).absoluteDir \notin DOMAIN fs
  /\ stack' = [stack EXCEPT ![w] = << >>]
  /\ walkStatus' = [walkStatus EXCEPT ![w] = "rejected"]
  /\ finishOrder' = Append(finishOrder, w)
  /\ UNCHANGED << pc, fs, walkResult, mergedAssets, mergeVars, uiVars >>

\* readdir rejects; the catch returns [] (lines 41-43).
ReaddirFail(w) ==
  /\ pc = "walking"
  /\ stack[w] # << >>
  /\ Top(w).state = "readdir"
  /\ Top(w).absoluteDir \notin DOMAIN fs
  /\ Return(w, << >>)
  /\ UNCHANGED << pc, fs, mergedAssets, mergeVars, uiVars >>

InLoop(w) ==
  /\ pc = "walking"
  /\ stack[w] # << >>
  /\ Top(w).state = "loop"
  /\ Top(w).idx <= Len(Top(w).entries)

Entry(w) == Top(w).entries[Top(w).idx]

\* The entry is a directory: collectAssets is called on it and awaited
\* (lines 53-56).
LoopDirectory(w) ==
  /\ InLoop(w)
  /\ Entry(w).kind = "dir"
  /\ stack' = [stack EXCEPT ![w] =
       Append(SetTop(w, [Top(w) EXCEPT !.state = "await"])[w],
              NewCall(Append(Top(w).absoluteDir, Entry(w).name),
                      nextRelativeOf(Top(w).relativeDir, Entry(w).name)))]
  /\ UNCHANGED << pc, fs, walkResult, walkStatus, finishOrder, mergedAssets, mergeVars, uiVars >>

\* The entry is not a directory and its extension is not an image's
\* (lines 60-63).
LoopSkip(w) ==
  /\ InLoop(w)
  /\ Entry(w).kind # "dir"
  /\ ~isImage(Entry(w).name)
  /\ stack' = SetTop(w, [Top(w) EXCEPT !.idx = @ + 1])
  /\ UNCHANGED << pc, fs, walkResult, walkStatus, finishOrder, mergedAssets, mergeVars, uiVars >>

\* The entry is pushed on the results (lines 65-71).
LoopPush(w) ==
  /\ InLoop(w)
  /\ Entry(w).kind # "dir"
  /\ isImage(Entry(w).name)
  /\ stack' = SetTop(w, [Top(w) EXCEPT
       !.results = Append(@, AssetItem(ROOT_FOLDERS[w], Top(w).relativeDir, Entry(w).name)),
       !.idx = @ + 1])
  /\ UNCHANGED << pc, fs, walkResult, walkStatus, finishOrder, mergedAssets, mergeVars, uiVars >>

\* The loop is over: the call returns its results (line 74).
LoopReturn(w) ==
  /\ pc = "walking"
  /\ stack[w] # << >>
  /\ Top(w).state = "loop"
  /\ Top(w).idx > Len(Top(w).entries)
  /\ Return(w, Top(w).results)
  /\ UNCHANGED << pc, fs, mergedAssets, mergeVars, uiVars >>

\* Home going on as soon as one walk has settled, with what has been
\* returned so far.
HomeFinishRace ==
  /\ pc = "walking"
  /\ \E w \in Walkers : walkStatus[w] = "fulfilled"
  /\ mergedAssets' = homeMerge(walkResult)
  /\ pc' = "rendered"
  /\ UNCHANGED << fs, stack, walkResult, walkStatus, finishOrder, mergeVars, uiVars >>

\* Promise.all resolves once every walk is fulfilled; the lists are
\* flattened in the order of ROOT_FOLDERS, sorted and merged (lines 150-161).
HomeFinish ==
  /\ pc = "walking"
  /\ \A w \in Walkers : walkStatus[w] = "fulfilled"
  /\ mergedAssets' = homeMerge(walkResult)
  /\ pc' = "rendered"
  /\ UNCHANGED << fs, stack, walkResult, walkStatus, finishOrder, mergeVars, uiVars >>

WalkNext ==
  \/ HomeStart
  \/ \E w \in Walkers :
       \/ ReaddirOk(w)
       \/ ReaddirFail(w)
       \/ LoopDirectory(w)
       \/ LoopSkip(w)
       \/ LoopPush(w)
       \/ LoopReturn(w)
  \/ HomeFinish

SpecWalk == WalkInit /\ [][WalkNext]_vars

(***************************************************************************)
(* AssetGallery: the component rendered by Home with the merged assets of  *)
(* a tree and sectionOrder = ROOT_FOLDERS, then mounted, then driven by    *)
(* scroll, pointer and key events.                                         *)
(*                                                                         *)
(* The trees: "Separate Atoms" holds x.svg and at most MaxFolders of the   *)
(* folders "a b", "a c", "a-b", "B" and "a/b", each holding x.svg;         *)
(* "Templates" holds poster.svg.                                           *)
(***************************************************************************)
nX == << "x", ".", "s", "v", "g" >>

FolderPool ==
  << << << "a", " ", "b" >> >>,
     << << "a", " ", "c" >> >>,
     << << "a", "-", "b" >> >>,
     << << "B" >> >>,
     << << "a" >>, << "b" >> >> >>

\* The tree with the folders of the pool whose indices are in S.
GalleryTree(S) ==
  LET chosen == Ascending(S)
      dirs == {<< SeparateAtoms >>, << Templates >>}
              \cup UNION { { << SeparateAtoms >> \o SubSeq(FolderPool[i], 1, k) :
                               k \in 1..Len(FolderPool[i]) } : i \in S }
      listing(d) ==
        IF d = << SeparateAtoms >>
          THEN << File(nX) >> \o [k \in 1..Len(chosen) |-> Dir(FolderPool[chosen[k]][1])]
        ELSE IF d = << Templates >>
          THEN << File(<< "p", "o", "s", "t", "e", "r", ".", "s", "v", "g" >>) >>
        ELSE IF \E i \in S : << SeparateAtoms >> \o FolderPool[i] = d
          THEN << File(nX) >>
        ELSE << Dir(<< "b" >>) >>
  IN  [d \in dirs |-> listing(d)]

GalleryTrees ==
  { GalleryTree(S) : S \in { T \in SUBSET (1..Len(FolderPool)) : Cardinality(T) <= MaxFolders } }

\* Positions the window is scrolled to.
ScrollPositions == {0, 100, 200}

\* The sections are laid out one below the other; the first one starts at
\* the top of the offset parent or further down.
Layouts(n) == { [i \in 1..n |-> first + 100 * (i - 1)] : first \in {0, 200} }

Keys == {"Escape", "Enter"}

UIInit ==
  /\ pc = "rendered"
  /\ fs \in GalleryTrees
  /\ mergedAssets = HomeAssets(fs)
  /\ stack = << >>
  /\ walkResult = << >>
  /\ walkStatus = << >>
  /\ finishOrder = << >>
  /\ MergeIdle
  /\ assets = mergedAssets
  /\ sections = sectionsOf(assets, ROOT_FOLDERS)
  /\ offsetTop \in Layouts(Len(sections))
  /\ scrollY = 0
  /\ sidebarOpen = FALSE
  /\ activeId = Null
  /\ hoveredId = Null
  /\ pointerOver = Null
  /\ lastEvent = "none"
  /\ prevSidebarOpen = FALSE
  /\ prevActiveId = Null

Ids == {sections[i].id : i \in 1..Len(sections)}

Handled(event) ==
  /\ lastEvent' = event
  /\ prevSidebarOpen' = sidebarOpen
  /\ prevActiveId' = activeId

\* The effect of lines 77-97 runs: onScroll is called once.
Mount ==
  /\ pc = "rendered"
  /\ pc' = "mounted"
  /\ activeId' = onScroll(sections, offsetTop, scrollY, activeId)
  /\ Handled("mount")
  /\ UNCHANGED << mergeVars, walkVars, assets, sections, offsetTop, scrollY,
                  sidebarOpen, hoveredId, pointerOver >>

\* A scroll event.
Scroll ==
  /\ pc = "mounted"
  /\ \E y \in ScrollPositions \ {scrollY} :
       /\ scrollY' = y
       /\ activeId' = onScroll(sections, offsetTop, y, activeId)
  /\ Handled("scroll")
  /\ UNCHANGED << pc, mergeVars, walkVars, assets, sections, offsetTop,
                  sidebarOpen, hoveredId, pointerOver >>

\* The open button, rendered only while the sidebar is closed (lines 121-134).
OpenClick ==
  /\ pc = "mounted"
  /\ ~sidebarOpen
  /\ sidebarOpen' = TRUE
  /\ Handled("open")
  /\ UNCHANGED << pc, mergeVars, walkVars, assets, sections, offsetTop, scrollY,
                  activeId, hoveredId, pointerOver >>

\* The backdrop (lines 111-118) and the close button of the sidebar (lines
\* 146-156): setSidebarOpen(false). The backdrop takes clicks only while the
\* sidebar is open; the close button stays in the document and can still be
\* clicked while the closed sidebar slides out.
CloseClick ==
  /\ pc = "mounted"
  /\ sidebarOpen' = FALSE
  /\ Handled("close")
  /\ UNCHANGED << pc, mergeVars, walkVars, assets, sections, offsetTop, scrollY,
                  activeId, hoveredId, pointerOver >>

\* A selection that leaves the sidebar as it is.
handleSectionClickStaysOpen(id) ==
  /\ pc = "mounted"
  /\ Handled("select")
  /\ UNCHANGED << pc, mergeVars, walkVars, assets, sections, offsetTop, scrollY,
                  sidebarOpen, activeId, hoveredId, pointerOver >>

\* handleSectionClick, lines 71-75: the section is scrolled into view (the
\* scroll events follow as Scroll steps) and the sidebar is closed.
handleSectionClick(id) ==
  /\ pc = "mounted"
  /\ sidebarOpen' = FALSE
  /\ Handled("select")
  /\ UNCHANGED << pc, mergeVars, walkVars, assets, sections, offsetTop, scrollY,
                  activeId, hoveredId, pointerOver >>

\* onKeyDown, lines 100-102.
onKeyDown(key) ==
  /\ pc = "mounted"
  /\ sidebarOpen' = IF key = "Escape" THEN FALSE ELSE sidebarOpen
  /\ Handled(IF key = "Escape" THEN "escape" ELSE "key")
  /\ UNCHANGED << pc, mergeVars, walkVars, assets, sections, offsetTop, scrollY,
                  activeId, hoveredId, pointerOver >>

\* onMouseEnter of a sidebar entry (line 167): setHoveredId(id), whatever
\* the state. The entries are always in the document, and remain under the
\* pointer while the closed sidebar slides out; two entries may have the
\* same id.
MouseEnter(id) ==
  /\ pc = "mounted"
  /\ hoveredId' = id
  /\ pointerOver' = id
  /\ Handled("enter")
  /\ UNCHANGED << pc, mergeVars, walkVars, assets, sections, offsetTop, scrollY,
                  sidebarOpen, activeId >>

\* onMouseLeave of a sidebar entry (line 168): setHoveredId(null), whatever
\* the state.
MouseLeave ==
  /\ pc = "mounted"
  /\ hoveredId' = Null
  /\ pointerOver' = Null
  /\ Handled("leave")
  /\ UNCHANGED << pc, mergeVars, walkVars, assets, sections, offsetTop, scrollY,
                  sidebarOpen, activeId >>

\* hoveredId ?? activeId (line 107)
highlightedId == IF hoveredId # Null THEN hoveredId ELSE activeId

UINext ==
  \/ Mount
  \/ Scroll
  \/ OpenClick
  \/ CloseClick
  \/ \E id \in Ids : handleSectionClick(id)
  \/ \E key \in Keys : onKeyDown(key)
  \/ \E id \in Ids : MouseEnter(id)
  \/ MouseLeave

SpecUI == UIInit /\ [][UINext]_vars

(***************************************************************************)
(* Claims about mergeAssets                                                *)
(***************************************************************************)
Range(seq) == {seq[i] : i \in 1..Len(seq)}

\* Number of positions of seq holding x.
Count(seq, x) == Cardinality({i \in 1..Len(seq) : seq[i] = x})

\* Position of an extension in the preference order, 0 if it is not in it.
PreferPos(ext) == IndexOf(ext, preferOrder)

PreviewVariant(m) == [extension |-> m.previewExtension, publicUrl |-> m.previewUrl]

\* C2 as stated: mergeAssets returns the same list, element for element,
\* for a list of raw assets and for every permutation of it.
C2_OrderIndependent == pc = "merged" => mergedA = mergedB

\* A merged asset whose preview does not depend on the order of its group:
\* one member only, or exactly one member with the preferred extension.
PreviewDetermined(m) ==
  \/ Len(m.variants) = 1
  \/ /\ PreferPos(m.previewExtension) > 0
     /\ Cardinality({i \in 1..Len(m.variants) :
                       m.variants[i].extension = m.previewExtension}) = 1

\* C2 amended: for a list of raw assets and every permutation of it,
\* mergeAssets returns lists of the same length whose elements agree, position
\* by position, on rootFolder, relativePath, baseName and the variants as a
\* multiset; on previewExtension when some extension of the group is in the
\* preference order; and on previewUrl when, in addition, one member only has
\* the preferred extension.
C2_SameUpToVariantOrder ==
  pc = "merged" =>
    /\ Len(mergedA) = Len(mergedB)
    /\ \A k \in 1..Len(mergedA) :
         LET a == mergedA[k]
             b == mergedB[k]
         IN  /\ a.rootFolder = b.rootFolder
             /\ a.relativePath = b.relativePath
             /\ a.baseName = b.baseName
             /\ Len(a.variants) = Len(b.variants)
             /\ \A v \in Range(a.variants) \cup Range(b.variants) :
                  Count(a.variants, v) = Count(b.variants, v)
             /\ (\E v \in Range(a.variants) : PreferPos(v.extension) > 0)
                  => a.previewExtension = b.previewExtension
             /\ PreviewDetermined(a) => PreviewVariant(a) = PreviewVariant(b)

\* A permutation changed the order of the variants of a merged asset.
C2_Witness ==
  /\ pc = "merged"
  /\ perm # items
  /\ \E k \in 1..Len(mergedA) :
       /\ Len(mergedA[k].variants) >= 2
       /\ mergedA[k].variants # mergedB[k].variants

\* C3: every merged asset has at least one variant, its preview is one of
\* its variants, the preview's extension is the earliest of preferOrder among
\* the extensions of the group, and when no extension of the group is in
\* preferOrder the preview is the first member of the group.
C3_Preview ==
  pc = "merged" =>
    \A k \in 1..Len(mergedB) :
      LET m == mergedB[k]
          preferred == {i \in 1..Len(m.variants) : PreferPos(m.variants[i].extension) > 0}
      IN  /\ Len(m.variants) >= 1
          /\ PreviewVariant(m) \in Range(m.variants)
          /\ preferred # {} =>
               /\ PreferPos(m.previewExtension) > 0
               /\ \A i \in preferred :
                    PreferPos(m.previewExtension) <= PreferPos(m.variants[i].extension)
          /\ preferred = {} => PreviewVariant(m) = m.variants[1]

\* One merged asset whose preview is not its first member, and one that
\* falls back to its first member.
C3_Witness ==
  /\ pc = "merged"
  /\ \E k \in 1..Len(mergedB) :
       /\ Len(mergedB[k].variants) >= 2
       /\ mergedB[k].previewExtension # mergedB[k].variants[1].extension
  /\ \E k \in 1..Len(mergedB) :
       \A i \in 1..Len(mergedB[k].variants) :
         PreferPos(mergedB[k].variants[i].extension) = 0

\* The file name's extension, as written, follows the stripped path.
StrippedFrom(relativePath, stripped, extension) ==
  /\ Len(relativePath) = Len(stripped) + 1 + Len(extension)
  /\ SubSeq(relativePath, 1, Len(stripped)) = stripped
  /\ relativePath[Len(stripped) + 1] = "."
  /\ toLowerCase(SubSeq(relativePath, Len(stripped) + 2, Len(relativePath))) = extension

\* C5: the merged list is in ascending order of rootFolder, then of
\* relativePath (the order of localeCompare, the comparator the code sorts
\* with); no two elements have the same (rootFolder, relativePath); and every
\* raw asset is a variant of exactly one merged asset, the one with its
\* rootFolder and its relative path without the extension.
C5_SortedPartition ==
  pc = "merged" =>
    /\ \A k \in 1..(Len(mergedB) - 1) :
         \/ localeCompare(mergedB[k].rootFolder, mergedB[k+1].rootFolder) < 0
         \/ /\ mergedB[k].rootFolder = mergedB[k+1].rootFolder
            /\ localeCompare(mergedB[k].relativePath, mergedB[k+1].relativePath) < 0
    /\ \A k, l \in 1..Len(mergedB) :
         (k # l) => << mergedB[k].rootFolder, mergedB[k].relativePath >>
                      # << mergedB[l].rootFolder, mergedB[l].relativePath >>
    /\ \A i \in 1..Len(perm) :
         LET owners == {k \in 1..Len(mergedB) :
                          [extension |-> perm[i].extension,
                           publicUrl |-> perm[i].publicUrl] \in Range(mergedB[k].variants)}
         IN  /\ Cardinality(owners) = 1
             /\ \A k \in owners :
                  /\ mergedB[k].rootFolder = perm[i].rootFolder
                  /\ StrippedFrom(perm[i].relativePath, mergedB[k].relativePath,
                                  perm[i].extension)
    /\ \A k \in 1..Len(mergedB) :
         Len(mergedB[k].variants) =
           Cardinality({i \in 1..Len(perm) :
              /\ perm[i].rootFolder = mergedB[k].rootFolder
              /\ StrippedFrom(perm[i].relativePath, mergedB[k].relativePath,
                              perm[i].extension)})

\* The sort moved a merged asset, and a group has two members.
C5_Witness ==
  /\ pc = "merged"
  /\ mergedB # mergeAssetsUnsorted(perm)
  /\ \E k \in 1..Len(mergedB) : Len(mergedB[k].variants) >= 2

(***************************************************************************)
(* Claims about collectAssets and Home                                     *)
(***************************************************************************)
\* The directories of f that the walk of a root folder reaches: every
\* directory on the way is readable and lists the next one as a directory.
ReachableDirs(f, rootFolder) ==
  { d \in DOMAIN f :
      /\ d[1] = rootFolder
      /\ \A k \in 1..(Len(d) - 1) :
           /\ SubSeq(d, 1, k) \in DOMAIN f
           /\ \E e \in Range(f[SubSeq(d, 1, k)]) : e.kind = "dir" /\ e.name = d[k + 1] }

RECURSIVE JoinSegments(_)
JoinSegments(segs) ==
  IF Len(segs) = 1 THEN segs[1]
  ELSE segs[1] \o << "/" >> \o JoinSegments(Tail(segs))

\* The path, relative to its root folder, of entry name of directory d.
RelativePathIn(d, name) == JoinSegments(Tail(d) \o << name >>)

\* The name ends with "." and, in any case, an image extension.
HasImageExtension(name) ==
  \E e \in IMAGE_EXTENSIONS :
    /\ Len(name) > Len(e) + 1
    /\ name[Len(name) - Len(e)] = "."
    /\ toLowerCase(SubSeq(name, Len(name) - Len(e) + 1, Len(name))) = e

ItemsAt(result, relativePath) ==
  {i \in 1..Len(result) : result[i].relativePath = relativePath}

\* C1: a finished walk holds exactly one item for every regular file, at
\* any depth, whose lower-cased extension is an image extension, no item for
\* a file with another or no extension, no item for a directory, and no
\* item that is not an entry of the tree.
C1_Collect ==
  \A w \in Walkers :
    walkStatus[w] = "fulfilled" =>
      LET result == walkResult[w]
          dirs == ReachableDirs(fs, ROOT_FOLDERS[w])
      IN  /\ \A d \in dirs : \A i \in 1..Len(fs[d]) :
               LET e == fs[d][i]
                   at == ItemsAt(result, RelativePathIn(d, e.name))
               IN  /\ (e.kind = "file" /\ HasImageExtension(e.name)) =>
                         /\ Cardinality(at) = 1
                         /\ \A k \in at :
                              /\ result[k].name = e.name
                              /\ result[k].rootFolder = ROOT_FOLDERS[w]
                              /\ result[k].extension \in IMAGE_EXTENSIONS
                   /\ (e.kind = "dir" \/ ~HasImageExtension(e.name)) => at = {}
          /\ \A k \in 1..Len(result) :
               \E d \in dirs : \E i \in 1..Len(fs[d]) :
                 /\ fs[d][i].kind # "dir"
                 /\ result[k].relativePath = RelativePathIn(d, fs[d][i].name)

\* A finished walk with an image two directories down, an upper-case
\* extension, and a directory named like an image whose file is returned.
C1_Witness ==
  /\ walkStatus[1] = "fulfilled"
  /\ \E k \in 1..Len(walkResult[1]) :
       walkResult[1][k].relativePath =
         nBody \o << "/" >> \o nIn \o << "/", "l", "e", "g", ".", "j", "p", "e", "g" >>
  /\ \E k \in 1..Len(walkResult[1]) :
       walkResult[1][k].name = << "a", "r", "m", ".", "P", "N", "G" >>
  /\ \E k \in 1..Len(walkResult[1]) :
       walkResult[1][k].relativePath = nSide \o << "/", "y", ".", "b", "m", "p" >>

\* The directories that a readable, reached directory lists and that cannot
\* be read.
UnreadableDirs(f, rootFolder) ==
  UNION { { Append(d, f[d][i].name) :
              i \in {j \in 1..Len(f[d]) : f[d][j].kind = "dir"} } :
          d \in ReachableDirs(f, rootFolder) }
  \ DOMAIN f

\* f with every entry of an unreadable directory removed from its parent.
WithoutUnreadable(f) ==
  [d \in DOMAIN f |->
     LET keep(e) == e.kind # "dir" \/ Append(d, e.name) \in DOMAIN f
     IN  SelectSeq(f[d], keep)]

\* C4: no walk is rejected; a finished walk returns what it returns for the
\* tree without the directories that cannot be read (nothing for a root
\* folder that cannot be read), and in particular the images of every
\* directory that can be read, the parents and siblings of unreadable ones
\* included.
C4_Unreadable ==
  \A w \in Walkers :
    /\ walkStatus[w] # "rejected"
    /\ walkStatus[w] = "fulfilled" =>
         /\ walkResult[w] =
              collectAssets(WithoutUnreadable(fs), << ROOT_FOLDERS[w] >>,
                            ROOT_FOLDERS[w], << >>)
         /\ << ROOT_FOLDERS[w] >> \notin DOMAIN fs => walkResult[w] = << >>
         /\ \A u \in UnreadableDirs(fs, ROOT_FOLDERS[w]) :
              \A d \in ReachableDirs(fs, ROOT_FOLDERS[w]) :
                \A i \in 1..Len(fs[d]) :
                  (fs[d][i].kind = "file" /\ HasImageExtension(fs[d][i].name)) =>
                     ItemsAt(walkResult[w], RelativePathIn(d, fs[d][i].name)) # {}

\* A nested directory cannot be read, a sibling of its parent can, and the
\* walk has returned the parent's and the sibling's images; the other root
\* folder cannot be read at all.
C4_Witness ==
  /\ walkStatus[1] = "fulfilled"
  /\ walkStatus[2] = "fulfilled"
  /\ << Templates >> \notin DOMAIN fs
  /\ << SeparateAtoms, nBody >> \in DOMAIN fs
  /\ << SeparateAtoms, nBody, nIn >> \notin DOMAIN fs
  /\ << SeparateAtoms, nSide >> \in DOMAIN fs
  /\ ItemsAt(walkResult[1], nBody \o << "/", "l", "e", "g", ".", "j", "p", "e", "g" >>) # {}
  /\ ItemsAt(walkResult[1], nSide \o << "/", "y", ".", "b", "m", "p" >>) # {}

\* C6: whatever the interleaving of the walks, the list passed to the
\* gallery is the one the file system determines.
C6_Interleaving == pc = "rendered" => mergedAssets = HomeAssets(fs)

\* The walk of the second root folder finished first, and both root folders
\* have assets.
C6_Witness ==
  /\ pc = "rendered"
  /\ finishOrder = << 2, 1 >>
  /\ \E k \in 1..Len(mergedAssets) : mergedAssets[k].rootFolder = SeparateAtoms
  /\ \E k \in 1..Len(mergedAssets) : mergedAssets[k].rootFolder = Templates

(***************************************************************************)
(* Claims about AssetGallery                                               *)
(***************************************************************************)
\* C7: two sections with distinct headings have distinct ids, and toSlug is
\* idempotent on every heading.
C7_SlugsDistinct ==
  /\ \A i, j \in 1..Len(sections) :
       sections[i].heading # sections[j].heading => sections[i].id # sections[j].id
  /\ \A i \in 1..Len(sections) :
       /\ sections[i].id = toSlug(sections[i].heading)
       /\ toSlug(toSlug(sections[i].heading)) = toSlug(sections[i].heading)

\* The sections whose own top offset is at most scrollY + 120.
Qualifying == {i \in 1..Len(sections) : offsetTop[i] <= scrollY + 120}

\* C8: after the mount and after every scroll event, activeId is the id of
\* the last section, in document order, whose top offset is at most
\* scrollY + 120, or its previous value when there is none; no event takes
\* activeId from a section id back to null.
C8_ScrollSpy ==
  /\ lastEvent \in {"mount", "scroll"} =>
       IF Qualifying = {}
         THEN activeId = prevActiveId
         ELSE activeId = sections[CHOOSE i \in Qualifying : \A j \in Qualifying : j <= i].id
  /\ prevActiveId # Null => activeId # Null

\* The folder part of a relative path: what precedes its last slash.
IsFolderOf(folderPath, relativePath) ==
  IF \A i \in 1..Len(relativePath) : relativePath[i] # "/"
    THEN folderPath = << >>
    ELSE /\ Len(folderPath) < Len(relativePath)
         /\ SubSeq(relativePath, 1, Len(folderPath)) = folderPath
         /\ relativePath[Len(folderPath) + 1] = "/"
         /\ \A i \in (Len(folderPath) + 2)..Len(relativePath) : relativePath[i] # "/"

\* C9: every merged asset is an item of exactly one section, the one of its
\* rootFolder and of the folder part of its relativePath; the sections follow
\* the order of the root folders given by the caller and, within a root, the
\* case-insensitive order of the folder paths; the heading is the root for
\* an empty folder path and "root / folderPath" otherwise.
C9_Sections ==
  /\ \A a \in 1..Len(assets) :
       LET holders == {i \in 1..Len(sections) : assets[a] \in Range(sections[i].items)}
       IN  /\ Cardinality(holders) = 1
           /\ \A i \in holders :
                /\ Count(sections[i].items, assets[a]) = 1
                /\ sections[i].root = assets[a].rootFolder
                /\ IsFolderOf(sections[i].folderPath, assets[a].relativePath)
  /\ \A i \in 1..Len(sections) :
       /\ sections[i].items # << >>
       /\ Range(sections[i].items) \subseteq Range(assets)
       /\ sections[i].heading =
            (IF sections[i].folderPath = << >>
               THEN sections[i].root
               ELSE sections[i].root \o << " ", "/", " " >> \o sections[i].folderPath)
  /\ \A i \in 1..(Len(sections) - 1) :
       \/ IndexOf(sections[i].root, ROOT_FOLDERS) < IndexOf(sections[i+1].root, ROOT_FOLDERS)
       \/ /\ sections[i].root = sections[i+1].root
          /\ sections[i].folderPath # sections[i+1].folderPath
          /\ ComparePrimary(sections[i].folderPath, sections[i+1].folderPath) <= 0

\* Sections of both root folders, one for the top level, one for a nested
\* folder, and an upper-case folder sorted after a lower-case one.
C9_Witness ==
  /\ pc = "mounted"
  /\ \E i \in 1..Len(sections) :
       sections[i].root = SeparateAtoms /\ sections[i].folderPath = << >>
  /\ \E i \in 1..Len(sections) : sections[i].folderPath = << "a", "/", "b" >>
  /\ \E i, j \in 1..Len(sections) :
       /\ i < j
       /\ sections[i].folderPath = << "a", " ", "b" >>
       /\ sections[j].folderPath = << "B" >>
  /\ sections[Len(sections)].root = Templates

\* C10: the sidebar starts closed; it is closed right after every selection
\* of an entry and every Escape key, whatever it was before; scroll and hover
\* events leave it as it was; the highlighted entry is the hovered one while
\* the pointer is over an entry and the active one otherwise.
C10_Sidebar ==
  /\ pc = "rendered" => ~sidebarOpen
  /\ lastEvent \in {"select", "escape"} => ~sidebarOpen
  /\ lastEvent \in {"mount", "scroll", "enter", "leave"} => sidebarOpen = prevSidebarOpen
  /\ highlightedId = (IF pointerOver # Null THEN pointerOver ELSE activeId)

\* An entry was selected while the sidebar was open and the pointer was
\* over an entry other than the active one.
C10_Witness ==
  /\ lastEvent = "select"
  /\ prevSidebarOpen
  /\ pointerOver # Null
  /\ activeId # Null
  /\ pointerOver # activeId

====
